---- MODULE Spec2Model ----
(***************************************************************************)
(* Model of DataService (common/data/data.service.ts) and of the part of   *)
(* RedisCacheService it uses: the request queue with deduplication, the    *)
(* queue processor, the circuit breaker and the cache-aside wrapper        *)
(* cachedQuery.  One action is one macrotask of the Node.js event loop: a  *)
(* handler together with the promise reactions (microtasks) it triggers.   *)
(***************************************************************************)
EXTENDS Integers, Sequences, FiniteSets, TLC

---------------------------------------------------------------------------
(* Program constants                                                       *)

MAX_CONCURRENT_REQUESTS == 3
QUEUE_PROCESSING_INTERVAL == 100
REQUEST_TIMEOUT == 250000
FAILURE_THRESHOLD == 5
RECOVERY_TIMEOUT == 60000

---------------------------------------------------------------------------
(* Bounds of the model                                                     *)

\* dedup keys (one per query text + variables)
NumKeys == 2
\* concurrent cachedQuery invocations that are followed to their return
NumCallers == 2
\* promise objects of one key alive at one time
NumGens == 2
\* the clock advances by REQUEST_TIMEOUT, MaxTimeouts times, or by the tick
\* interval, MaxTicks times
MaxTimeouts == 1
MaxTicks == 1
\* dedup keys of the scheduler-only specification
NumQueueKeys == 4


\* dedup keys and clock of the breaker specification: the clock advances by
\* RECOVERY_TIMEOUT, MaxBreakerSteps times
NumBreakerKeys == 3
MaxBreakerSteps == 2
\* values that updateHistoricalConfig can give the lower bound
NumBounds == 2

Keys == 1..NumKeys
BreakerKeys == 1..NumBreakerKeys
QueueKeys == 1..NumQueueKeys
\* the lower bounds of the time-bounded queries, oldest configuration first
HistoricalTimestamps == 0..(NumBounds - 1)

\* getRequestId: the query text and its variables, of which the lower bound
\* is one; cache key k asked with bound ts
RequestId(k, ts) == k + NumKeys * ts

\* the lower bound in the variables of request id
BoundOf(id) == (id - 1) \div NumKeys

RequestIds == {RequestId(k, ts) : k \in Keys, ts \in HistoricalTimestamps}
KeyUniverse == Keys \cup QueueKeys \cup BreakerKeys \cup RequestIds
Callers == 1..NumCallers
PromiseIds == KeyUniverse \X (1..NumGens)

\* what the subgraph can answer: data, or data whose looked-up entity is null
FreshValue == "v1"
\* what an earlier run left in the cache store
OldValue == "v0"
\* what the subgraph holds from lower bound ts on
DataSince(ts) == IF ts = 0 THEN "since0" ELSE "since1"
NULL == "null"
EmptyList == "[]"
\* HttpException statuses thrown by executeSubgraphQuery
HttpErrors == {"ClientError", "ServerError"}
TimeoutError == "RequestTimeout"
CacheError == "CacheError"

NoPromise == <<0, 0>>
NoRecovery == 0 - 1
\* history: updateHistoricalConfig ran while the call was under way
Overtaken == 0 - 2
NoOutcome == [kind |-> "none", val |-> "none"]
Ok(v) == [kind |-> "ok", val |-> v]
Err(e) == [kind |-> "err", val |-> e]
NoMemo == [result |-> NoOutcome, timestamp |-> 0]
NoEntry == [val |-> NULL, fresh |-> FALSE]
IdleCaller ==
  [pc |-> "idle", key |-> 0, joined |-> NoPromise, got |-> NoOutcome,
   since |-> 0, error |-> NoOutcome, ret |-> NoOutcome, openAtCatch |-> FALSE, reads |-> 0, stale |-> "unread"]

VARIABLES
  now,                \* Date.now()
  requestQueue,       \* sequence of queue items
  enqueueOrder,       \* history: promises of the queued items, in push order
  pendingRequests,    \* key -> promise id, NoPromise when absent
  activeRequests,     \* set of keys
  processedRequests,  \* key -> {result, timestamp}, NoMemo when absent
  isProcessingQueue,
  failureCount,
  lastFailureTime,
  streak,             \* history: failures settled since the last success or reset
  recoveredAt,        \* history: time of the lazy reset whose first request is
                      \* still to settle, NoRecovery otherwise
  historicalTimestamp,
  flights,            \* executions started by processRequestSafely
  builds,             \* history: promise id -> times execute() ran for it
  cache,              \* the cache store: key -> entry
  callers             \* cachedQuery invocations

vars ==
  <<now, requestQueue, enqueueOrder, pendingRequests, activeRequests,
    processedRequests, isProcessingQueue, failureCount, lastFailureTime,
    streak, recoveredAt, historicalTimestamp, flights, builds, cache, callers>>

---------------------------------------------------------------------------
(* Pure helpers                                                            *)

\* priority passed to queueSubgraphRequest is fixed per query: 2 for the
\* slashing-event queries, 1 for the others
PriorityOf(k) == IF k % 2 = 0 THEN 2 ELSE 1

Min(a, b) == IF a < b THEN a ELSE b

RECURSIVE SeqToSet(_)
SeqToSet(s) == IF s = <<>> THEN {} ELSE {Head(s)} \cup SeqToSet(Tail(s))

RECURSIVE RemoveAll(_, _)
RemoveAll(s, S) ==
  IF s = <<>> THEN <<>>
  ELSE IF Head(s) \in S THEN RemoveAll(Tail(s), S)
       ELSE <<Head(s)>> \o RemoveAll(Tail(s), S)

\* mutant: lower priority first
CompareRequestsAscending(a, b) ==
  IF a.priority # b.priority THEN a.priority - b.priority
  ELSE a.timestamp - b.timestamp

\* the comparator of requestQueue.sort
CompareRequests(a, b) ==
  IF a.priority # b.priority THEN b.priority - a.priority
  ELSE a.timestamp - b.timestamp

\* Array.prototype.sort is stable: an item goes behind every item that does
\* not compare greater than it
RECURSIVE InsertSorted(_, _)
InsertSorted(e, s) ==
  IF s = <<>> THEN <<e>>
  ELSE IF CompareRequests(Head(s), e) <= 0
       THEN <<Head(s)>> \o InsertSorted(e, Tail(s))
       ELSE <<e>> \o s

RECURSIVE SortFrom(_, _)
SortFrom(done, rest) ==
  IF rest = <<>> THEN done
  ELSE SortFrom(InsertSorted(Head(rest), done), Tail(rest))

SortQueue(q) == SortFrom(<<>>, q)

---------------------------------------------------------------------------
(* Circuit breaker                                                         *)

\* mutant: the threshold itself does not open the breaker
IsCircuitOpenAboveThreshold(fc, lft, t) ==
  IF fc <= FAILURE_THRESHOLD THEN FALSE
  ELSE IF t - lft > RECOVERY_TIMEOUT THEN FALSE
  ELSE TRUE

\* mutant: the breaker closes when exactly RECOVERY_TIMEOUT has passed
IsCircuitOpenEarlyClose(fc, lft, t) ==
  IF fc < FAILURE_THRESHOLD THEN FALSE
  ELSE IF t - lft >= RECOVERY_TIMEOUT THEN FALSE
  ELSE TRUE

\* mutant: the breaker is never seen open
IsCircuitOpenNever(fc, lft, t) == FALSE

\* isCircuitOpen(): the value it returns
IsCircuitOpen(fc, lft, t) ==
  IF fc < FAILURE_THRESHOLD THEN FALSE
  ELSE IF t - lft > RECOVERY_TIMEOUT THEN FALSE
  ELSE TRUE

\* mutant: the check never resets the count
FailureCountAfterCheckKept(fc, lft, t) == fc

\* isCircuitOpen(): failureCount after the call (the lazy reset)
FailureCountAfterCheck(fc, lft, t) ==
  IF fc < FAILURE_THRESHOLD THEN fc
  ELSE IF t - lft > RECOVERY_TIMEOUT THEN 0
  ELSE fc

\* mutant: a failure counts twice
RecordFailureCountTwice(fc) == fc + 2

RecordFailureCount(fc) == fc + 1

RecordSuccessCount(fc) == IF fc > 0 THEN 0 ELSE fc

\* history: the lazy reset of isCircuitOpen() starts a new run of failures
StreakAfterCheck ==
  IF failureCount >= FAILURE_THRESHOLD /\ now - lastFailureTime > RECOVERY_TIMEOUT
  THEN 0 ELSE streak

\* history: the lazy reset of isCircuitOpen() is a recovery from Open
RecoveredAtAfterCheck ==
  IF failureCount >= FAILURE_THRESHOLD /\ now - lastFailureTime > RECOVERY_TIMEOUT
  THEN now ELSE recoveredAt

\* execution f was dispatched after the breaker's latest recovery
AfterRecovery(f) == recoveredAt # NoRecovery /\ f.startedAt >= recoveredAt

---------------------------------------------------------------------------
(* Cache store (RedisCacheService over cache-manager)                      *)

\* mutant: every read is a miss
CacheGetAlwaysMiss(store, k) == NULL

\* RedisCacheService.get: the store gives nothing for an entry whose TTL has
\* run out, and `data || null` turns that into null
CacheGet(store, k) ==
  IF store[k].fresh /\ store[k].val # NULL THEN store[k].val ELSE NULL

\* mutant: the write is lost
CacheSetLost(store, k, v) == store

\* RedisCacheService.set
CacheSet(store, k, v) == [store EXCEPT ![k] = [val |-> v, fresh |-> TRUE]]

---------------------------------------------------------------------------
(* queueSubgraphRequest                                                    *)

UsedPromises ==
  ({pendingRequests[k] : k \in KeyUniverse}
     \cup {requestQueue[i].promise : i \in 1..Len(requestQueue)}
     \cup {f.promise : f \in flights}
     \cup {callers[c].joined : c \in Callers}) \ {NoPromise}

FreePromises == PromiseIds \ UsedPromises

\* new Promise(...) in queueSubgraphRequest(k): an identity not in use, named
\* by the key and a number
CanCreate(k) == \E g \in 1..NumGens : <<k, g>> \in FreePromises

FreshPromise(k) ==
  <<k, CHOOSE g \in 1..NumGens :
         /\ <<k, g>> \in FreePromises
         /\ \A h \in 1..NumGens : <<k, h>> \in FreePromises => g <= h>>

\* mutant: no deduplication
HasPendingNever(pend, k) == FALSE

\* this.pendingRequests.has(requestId)
HasPending(pend, k) == pend[k] # NoPromise

QueueItem(k, p, t) ==
  [id |-> k, priority |-> PriorityOf(k), timestamp |-> t, promise |-> p]

\* the promise queueSubgraphRequest(k) returns
RequestPromise(k) ==
  IF HasPending(pendingRequests, k) THEN pendingRequests[k] ELSE FreshPromise(k)

\* the effect of queueSubgraphRequest(k) on the queue and the pending table
QueueSubgraphRequest(k) ==
  IF HasPending(pendingRequests, k)
  THEN UNCHANGED <<requestQueue, enqueueOrder, pendingRequests, builds>>
  ELSE /\ CanCreate(k)
       /\ requestQueue' = Append(requestQueue, QueueItem(k, FreshPromise(k), now))
       /\ enqueueOrder' = Append(enqueueOrder, FreshPromise(k))
       /\ pendingRequests' = [pendingRequests EXCEPT ![k] = FreshPromise(k)]
       /\ builds' = [builds EXCEPT ![FreshPromise(k)] = 0]

\* a call of queueSubgraphRequest whose caller is not followed further
Enqueue(k) ==
  /\ ~HasPending(pendingRequests, k)
  /\ QueueSubgraphRequest(k)
  /\ UNCHANGED <<now, historicalTimestamp, activeRequests, processedRequests, isProcessingQueue,
                 failureCount, streak, recoveredAt, lastFailureTime, flights, cache, callers>>

---------------------------------------------------------------------------
(* processQueue and processRequestSafely                                   *)

\* mutant: the requests in flight are not counted
AvailableSlotsIgnoringActive(active) == MAX_CONCURRENT_REQUESTS

AvailableSlots(active) == MAX_CONCURRENT_REQUESTS - Cardinality(active)

\* mutant: the memo never intercepts
IsProcessedNever(memo, k) == FALSE

\* this.processedRequests.has(request.id)
IsProcessed(memo, k) == memo[k] # NoMemo

\* the loop over requestsToProcess, as far as activeRequests goes
RECURSIVE ActiveAfterLoop(_, _, _)
ActiveAfterLoop(active, reqs, memo) ==
  IF reqs = <<>> THEN active
  ELSE LET r == Head(reqs)
           added == active \cup {r.id}
       IN ActiveAfterLoop(IF IsProcessed(memo, r.id) THEN added \ {r.id}
                          ELSE added,
                          Tail(reqs), memo)

\* the requests of the loop that reach processRequestSafely
RECURSIVE Started(_, _)
Started(reqs, memo) ==
  IF reqs = <<>> THEN <<>>
  ELSE IF IsProcessed(memo, Head(reqs).id) THEN Started(Tail(reqs), memo)
       ELSE <<Head(reqs)>> \o Started(Tail(reqs), memo)

Flight(r, t) ==
  [id |-> r.id, promise |-> r.promise, startedAt |-> t, raceSettled |-> FALSE]

\* mutant: every dispatched request is executed a second time
BuildsAfterTwice(b, started) ==
  [p \in PromiseIds |->
     LET n == Cardinality({i \in 1..Len(started) : started[i].promise = p})
     IN Min(b[p] + 2 * n, 2)]

\* the number of calls of execute() per promise, counted up to 2
BuildsAfter(b, started) ==
  [p \in PromiseIds |->
     LET n == Cardinality({i \in 1..Len(started) : started[i].promise = p})
     IN Min(b[p] + n, 2)]

\* requestsToProcess = requestQueue.splice(0, availableSlots), after the sort
RequestsToProcess(q, slots) == SubSeq(SortQueue(q), 1, Min(slots, Len(q)))

RemainingQueue(q, slots) ==
  SubSeq(SortQueue(q), Min(slots, Len(q)) + 1, Len(q))

ProcessQueue ==
  IF isProcessingQueue \/ Len(requestQueue) = 0 THEN UNCHANGED vars
  ELSE IF IsCircuitOpen(failureCount, lastFailureTime, now) THEN UNCHANGED vars
  ELSE LET slots == AvailableSlots(activeRequests)
           taken == RequestsToProcess(requestQueue, slots)
           started == Started(taken, processedRequests)
       IN /\ failureCount' =
               FailureCountAfterCheck(failureCount, lastFailureTime, now)
          /\ streak' = StreakAfterCheck
          /\ recoveredAt' = RecoveredAtAfterCheck
          /\ IF slots <= 0
             THEN UNCHANGED <<requestQueue, enqueueOrder, activeRequests,
                              flights, builds>>
             ELSE /\ requestQueue' = RemainingQueue(requestQueue, slots)
                  /\ enqueueOrder' =
                       RemoveAll(enqueueOrder,
                                 {taken[i].promise : i \in 1..Len(taken)})
                  /\ activeRequests' =
                       ActiveAfterLoop(activeRequests, taken, processedRequests)
                  /\ flights' =
                       flights \cup {Flight(started[i], now) : i \in 1..Len(started)}
                  /\ builds' = BuildsAfter(builds, started)
          /\ UNCHANGED <<now, historicalTimestamp, pendingRequests, processedRequests,
                         isProcessingQueue, lastFailureTime, cache, callers>>

---------------------------------------------------------------------------
(* cachedQuery, after `await queryFn()`                                    *)

\* queryFn's own return.  The slashing-event queries (priority 2) return
\* `result.xs || []`: an absent list becomes the empty list.  The entity
\* queries (priority 1) return `result.operator`, which is null when the
\* subgraph knows no such entity.
QueryFnResult(k, v) ==
  IF PriorityOf(k) = 2 /\ v = NULL THEN EmptyList ELSE v

\* mutant: the caller is answered before the failure is recorded
AfterQueryFnBeforeRecord(cr, o, fc, lft, t) ==
  IF o.kind = "ok"
  THEN IF QueryFnResult(cr.key, o.val) # NULL
       THEN [cr EXCEPT !.pc = "cacheSet", !.got = o]
       ELSE [cr EXCEPT !.pc = "done", !.got = o,
                       !.ret = Ok(QueryFnResult(cr.key, o.val))]
  ELSE IF IsCircuitOpen(fc - 1, lft, t)
       THEN [cr EXCEPT !.pc = "staleGet", !.got = o, !.error = o,
                       !.openAtCatch = TRUE, !.reads = cr.reads + 1]
       ELSE [cr EXCEPT !.pc = "done", !.got = o, !.error = o, !.ret = o]

\* the caller of cachedQuery after queryFn settled with outcome o, the breaker
\* counters being fc and lft
AfterQueryFn(cr, o, fc, lft, t) ==
  IF o.kind = "ok"
  THEN IF QueryFnResult(cr.key, o.val) # NULL
       THEN [cr EXCEPT !.pc = "cacheSet", !.got = o]
       ELSE [cr EXCEPT !.pc = "done", !.got = o,
                       !.ret = Ok(QueryFnResult(cr.key, o.val))]
  ELSE IF IsCircuitOpen(fc, lft, t)
       THEN [cr EXCEPT !.pc = "staleGet", !.got = o, !.error = o,
                       !.openAtCatch = TRUE, !.reads = cr.reads + 1]
       ELSE [cr EXCEPT !.pc = "done", !.got = o, !.error = o, !.ret = o]

\* mutant: an empty fallback read returns a default instead of rethrowing
AfterStaleReadWithDefault(cr, staleData) ==
  IF staleData # NULL
  THEN [cr EXCEPT !.pc = "done", !.ret = Ok(staleData), !.stale = staleData]
  ELSE [cr EXCEPT !.pc = "done", !.ret = Ok(NULL), !.stale = NULL]

\* the end of the catch block once the fallback read gave `stale`
AfterStaleRead(cr, staleData) ==
  IF staleData # NULL
  THEN [cr EXCEPT !.pc = "done", !.ret = Ok(staleData), !.stale = staleData]
  ELSE [cr EXCEPT !.pc = "done", !.ret = cr.error, !.stale = NULL]

---------------------------------------------------------------------------
(* Settlement of a dispatched request: the then/catch/finally chain of     *)
(* processRequestSafely and the reactions of the request promise           *)

\* mutant: the slot is kept
ReleaseSlotNever(active, k) == active

\* finally: this.activeRequests.delete(request.id)
ReleaseSlot(active, k) == active \ {k}

Waiting(p) == {c \in Callers : callers[c].pc = "awaitQuery" /\ callers[c].joined = p}

CountAfterOutcome(fc, o) ==
  IF o.kind = "ok" THEN RecordSuccessCount(fc) ELSE RecordFailureCount(fc)

StampAfterOutcome(lft, o, t) == IF o.kind = "ok" THEN lft ELSE t

\* mutant: the pending entry outlives its promise
PendingAfterSettleKept(pend, k) == pend

\* requestPromise.finally: this.pendingRequests.delete(id)
PendingAfterSettle(pend, k) == [pend EXCEPT ![k] = NoPromise]

\* mutant: only results are remembered, errors are not
MemoAfterSettleResultsOnly(memo, k, o, t) ==
  IF o.kind = "ok" THEN [memo EXCEPT ![k] = [result |-> o, timestamp |-> t]] ELSE memo

\* this.processedRequests.set(request.id, {result, timestamp: Date.now()})
MemoAfterSettle(memo, k, o, t) == [memo EXCEPT ![k] = [result |-> o, timestamp |-> t]]

\* mutant: the handler does not settle the promise after a throw
SettledAfterThrowNone(waiting) == {}

\* catch (resolveError) / catch (rejectError): request.resolve / request.reject
\* is called again, every caller of the promise is answered
SettledAfterThrow(waiting) == waiting

\* the reactions of Promise.race; stored = FALSE when the statements before
\* processedRequests.set, or the set itself, throw inside the handler
SettleRaceWith(f, o, stored) ==
  LET fc1 == CountAfterOutcome(failureCount, o)
      lft1 == StampAfterOutcome(lastFailureTime, o, now)
      answered == IF stored THEN Waiting(f.promise)
                            ELSE SettledAfterThrow(Waiting(f.promise))
  IN /\ lastFailureTime' = lft1
     /\ processedRequests' =
          IF stored THEN MemoAfterSettle(processedRequests, f.id, o, now)
                    ELSE processedRequests
     /\ pendingRequests' =
          IF stored \/ answered = Waiting(f.promise)
          THEN PendingAfterSettle(pendingRequests, f.id)
          ELSE pendingRequests
     /\ callers' =
          [c \in Callers |->
             IF c \in answered
             THEN AfterQueryFn(callers[c], o, fc1, lft1, now)
             ELSE callers[c]]
     /\ failureCount' =
          IF o.kind = "err" /\ answered # {}
          THEN FailureCountAfterCheck(fc1, lft1, now)
          ELSE fc1
     /\ streak' = IF o.kind = "ok" THEN 0 ELSE streak + 1
     /\ recoveredAt' = IF AfterRecovery(f) THEN NoRecovery ELSE recoveredAt
     /\ activeRequests' = ReleaseSlot(activeRequests, f.id)

SettleRace(f, o) == SettleRaceWith(f, o, TRUE)

\* the HTTP call of a dispatched request answers with data v
HttpSuccess(f, v) ==
  /\ f \in flights
  /\ flights' = flights \ {f}
  /\ IF f.raceSettled
     THEN UNCHANGED <<pendingRequests, activeRequests, processedRequests,
                      failureCount, streak, recoveredAt, lastFailureTime, callers>>
     ELSE SettleRace(f, Ok(v))
  /\ UNCHANGED <<now, historicalTimestamp, requestQueue, enqueueOrder, isProcessingQueue, builds, cache>>

\* the HTTP call fails: executeSubgraphQuery throws an HttpException
HttpFailure(f, e) ==
  /\ f \in flights
  /\ flights' = flights \ {f}
  /\ IF f.raceSettled
     THEN UNCHANGED <<pendingRequests, activeRequests, processedRequests,
                      failureCount, streak, recoveredAt, lastFailureTime, callers>>
     ELSE SettleRace(f, Err(e))
  /\ UNCHANGED <<now, historicalTimestamp, requestQueue, enqueueOrder, isProcessingQueue, builds, cache>>

\* the HTTP call answers with data v and the bookkeeping of the .then handler
\* throws before the memo is written
HttpSuccessMemoThrows(f, v) ==
  /\ f \in flights
  /\ ~f.raceSettled
  /\ flights' = flights \ {f}
  /\ SettleRaceWith(f, Ok(v), FALSE)
  /\ UNCHANGED <<now, historicalTimestamp, requestQueue, enqueueOrder, isProcessingQueue, builds, cache>>

\* the HTTP call fails and the bookkeeping of the .catch handler throws before
\* the memo is written
HttpFailureMemoThrows(f, e) ==
  /\ f \in flights
  /\ ~f.raceSettled
  /\ flights' = flights \ {f}
  /\ SettleRaceWith(f, Err(e), FALSE)
  /\ UNCHANGED <<now, historicalTimestamp, requestQueue, enqueueOrder, isProcessingQueue, builds, cache>>

\* the setTimeout of processRequestSafely fires first
RequestTimeout(f) ==
  /\ f \in flights
  /\ ~f.raceSettled
  /\ now - f.startedAt >= REQUEST_TIMEOUT
  /\ flights' = (flights \ {f})
                  \cup {[f EXCEPT !.raceSettled = TRUE, !.promise = NoPromise]}
  /\ SettleRace(f, Err(TimeoutError))
  /\ UNCHANGED <<now, historicalTimestamp, requestQueue, enqueueOrder, isProcessingQueue, builds, cache>>

---------------------------------------------------------------------------
(* cachedQuery, from the call to `await queryFn()`                         *)

\* a public query method is called: cachedQuery starts its cache read
StartQuery(c, k) ==
  /\ callers[c].pc = "idle"
  /\ callers' = [callers EXCEPT ![c] =
                   [IdleCaller EXCEPT !.pc = "cacheGet", !.key = k, !.reads = 1,
                                      !.since = historicalTimestamp]]
  /\ UNCHANGED <<now, historicalTimestamp, requestQueue, enqueueOrder, pendingRequests,
                 activeRequests, processedRequests, isProcessingQueue,
                 failureCount, streak, recoveredAt, lastFailureTime, flights, builds, cache>>

\* the first cache read answers: a hit returns, a miss calls queryFn
CacheGetReturn(c) ==
  LET k == callers[c].key
      cached == CacheGet(cache, k)
      id == RequestId(k, historicalTimestamp)
  IN /\ callers[c].pc = "cacheGet"
     /\ IF cached # NULL
        THEN /\ callers' = [callers EXCEPT ![c].pc = "done", ![c].ret = Ok(cached)]
             /\ UNCHANGED <<requestQueue, enqueueOrder, pendingRequests, builds>>
        ELSE /\ QueueSubgraphRequest(id)
             /\ callers' = [callers EXCEPT ![c].pc = "awaitQuery",
                                           ![c].joined = RequestPromise(id)]
     /\ UNCHANGED <<now, historicalTimestamp, activeRequests, processedRequests, isProcessingQueue,
                    failureCount, streak, recoveredAt, lastFailureTime, flights, cache>>

\* mutant: the catch block rethrows without looking at the breaker
CatchCacheErrorNoFallback(c) ==
  /\ callers' = [callers EXCEPT ![c] =
       [@ EXCEPT !.pc = "done", !.error = Err(CacheError), !.ret = Err(CacheError)]]
  /\ failureCount' = FailureCountAfterCheck(failureCount, lastFailureTime, now)
  /\ streak' = StreakAfterCheck
  /\ recoveredAt' = RecoveredAtAfterCheck

\* the catch block of cachedQuery for an error that did not come from queryFn
CatchCacheError(c) ==
  /\ callers' = [callers EXCEPT ![c] =
       IF IsCircuitOpen(failureCount, lastFailureTime, now)
       THEN [@ EXCEPT !.pc = "staleGet", !.error = Err(CacheError),
                      !.openAtCatch = TRUE, !.reads = @ + 1]
       ELSE [@ EXCEPT !.pc = "done", !.error = Err(CacheError),
                      !.ret = Err(CacheError)]]
  /\ failureCount' = FailureCountAfterCheck(failureCount, lastFailureTime, now)
  /\ streak' = StreakAfterCheck
  /\ recoveredAt' = RecoveredAtAfterCheck

\* the first cache read throws (RedisCacheService.get rethrows an ApiException)
CacheGetFail(c) ==
  /\ callers[c].pc = "cacheGet"
  /\ CatchCacheError(c)
  /\ UNCHANGED <<now, historicalTimestamp, requestQueue, enqueueOrder, pendingRequests,
                 activeRequests, processedRequests, isProcessingQueue,
                 lastFailureTime, flights, builds, cache>>

\* the write of the result completes and cachedQuery returns the result
CacheSetReturn(c) ==
  /\ callers[c].pc = "cacheSet"
  /\ cache' = CacheSet(cache, callers[c].key,
                       QueryFnResult(callers[c].key, callers[c].got.val))
  /\ callers' = [callers EXCEPT ![c].pc = "done",
                                ![c].ret =
                                  Ok(QueryFnResult(callers[c].key, callers[c].got.val))]
  /\ UNCHANGED <<now, historicalTimestamp, requestQueue, enqueueOrder, pendingRequests,
                 activeRequests, processedRequests, isProcessingQueue,
                 failureCount, streak, recoveredAt, lastFailureTime, flights, builds>>

\* the write throws
CacheSetFail(c) ==
  /\ callers[c].pc = "cacheSet"
  /\ CatchCacheError(c)
  /\ UNCHANGED <<now, historicalTimestamp, requestQueue, enqueueOrder, pendingRequests,
                 activeRequests, processedRequests, isProcessingQueue,
                 lastFailureTime, flights, builds, cache>>

\* the fallback read of the catch block answers
StaleGetReturn(c) ==
  /\ callers[c].pc = "staleGet"
  /\ callers' = [callers EXCEPT ![c] =
                   AfterStaleRead(@, CacheGet(cache, callers[c].key))]
  /\ UNCHANGED <<now, historicalTimestamp, requestQueue, enqueueOrder, pendingRequests,
                 activeRequests, processedRequests, isProcessingQueue,
                 failureCount, streak, recoveredAt, lastFailureTime, flights, builds, cache>>

\* the fallback read throws: the error is swallowed
StaleGetFail(c) ==
  /\ callers[c].pc = "staleGet"
  /\ callers' = [callers EXCEPT ![c] = AfterStaleRead(@, NULL)]
  /\ UNCHANGED <<now, historicalTimestamp, requestQueue, enqueueOrder, pendingRequests,
                 activeRequests, processedRequests, isProcessingQueue,
                 failureCount, streak, recoveredAt, lastFailureTime, flights, builds, cache>>

\* the invocation is over: its caller has the value or the error
Return(c) ==
  /\ callers[c].pc = "done"
  /\ callers' = [callers EXCEPT ![c] = IdleCaller]
  /\ UNCHANGED <<now, historicalTimestamp, requestQueue, enqueueOrder, pendingRequests,
                 activeRequests, processedRequests, isProcessingQueue,
                 failureCount, streak, recoveredAt, lastFailureTime, flights, builds, cache>>

---------------------------------------------------------------------------
(* Environment: the clock and the cache store's TTL                        *)

AdvanceTime(step, max) ==
  /\ now + step <= max
  /\ now' = now + step
  /\ UNCHANGED <<requestQueue, enqueueOrder, pendingRequests, activeRequests,
                 processedRequests, isProcessingQueue, failureCount, streak,
                 recoveredAt, historicalTimestamp, lastFailureTime, flights,
                 builds, cache, callers>>

\* updateHistoricalConfig: the lower bound is recalculated in one synchronous
\* call; nothing else is touched
UpdateHistoricalConfig(ts) ==
  /\ ts # historicalTimestamp
  /\ historicalTimestamp' = ts
  /\ callers' = [c \in Callers |->
                   IF callers[c].pc = "idle" THEN callers[c]
                   ELSE [callers[c] EXCEPT !.since = Overtaken]]
  /\ UNCHANGED <<now, requestQueue, enqueueOrder, pendingRequests,
                 activeRequests, processedRequests, isProcessingQueue,
                 failureCount, streak, recoveredAt, lastFailureTime, flights,
                 builds, cache>>

\* another instance of the service, or an earlier run of this one, wrote the
\* entry: the store is shared and outlives the process
ExternalWrite(k, v) ==
  /\ cache[k] = NoEntry
  /\ cache' = CacheSet(cache, k, v)
  /\ UNCHANGED <<now, historicalTimestamp, requestQueue, enqueueOrder, pendingRequests,
                 activeRequests, processedRequests, isProcessingQueue,
                 failureCount, streak, recoveredAt, lastFailureTime, flights, builds, callers>>

\* the TTL of a cache entry runs out
Expire(k) ==
  /\ cache[k].fresh
  /\ cache' = [cache EXCEPT ![k].fresh = FALSE]
  /\ UNCHANGED <<now, historicalTimestamp, requestQueue, enqueueOrder, pendingRequests,
                 activeRequests, processedRequests, isProcessingQueue,
                 failureCount, streak, recoveredAt, lastFailureTime, flights, builds, callers>>

---------------------------------------------------------------------------
(* Specifications                                                          *)

InitWith(fc) ==
  /\ now = 0
  /\ requestQueue = <<>>
  /\ enqueueOrder = <<>>
  /\ pendingRequests = [k \in KeyUniverse |-> NoPromise]
  /\ activeRequests = {}
  /\ processedRequests = [k \in KeyUniverse |-> NoMemo]
  /\ isProcessingQueue = FALSE
  /\ failureCount = fc
  /\ streak = fc
  /\ recoveredAt = NoRecovery
  /\ historicalTimestamp = 0
  /\ lastFailureTime = 0
  /\ flights = {}
  /\ builds = [p \in PromiseIds |-> 0]
  /\ cache = [k \in KeyUniverse |-> NoEntry]
  /\ callers = [c \in Callers |-> IdleCaller]

\* The service has run before: requests for keys other than the modelled ones
\* have failed at time 0, one or two fewer than the breaker's threshold, with
\* no success since.
Init == InitWith(FAILURE_THRESHOLD - 1)

QueueInit == InitWith(FAILURE_THRESHOLD - 2)

\* keys are interchangeable up to their priority: they are first used in the
\* order of their numbers
KeyUsed(k) == HasPending(pendingRequests, k) \/ IsProcessed(processedRequests, k)

InKeyOrder(k) == IF k = 1 THEN TRUE ELSE KeyUsed(k - 1)

\* the scheduler and the breaker, with callers that are not followed
QueueNext ==
  \/ \E k \in QueueKeys : InKeyOrder(k) /\ Enqueue(k)
  \/ ProcessQueue
  \/ \E f \in flights : HttpSuccess(f, "v1")
  \/ \E f \in flights : HttpFailure(f, "ServerError")
  \/ \E f \in flights : RequestTimeout(f)
  \/ AdvanceTime(REQUEST_TIMEOUT, MaxTimeouts * REQUEST_TIMEOUT)

QueueSpec == QueueInit /\ [][QueueNext]_vars

\* the order of dispatch: every order of arrival, answers only
OrderNext ==
  \/ \E k \in QueueKeys : Enqueue(k)
  \/ ProcessQueue
  \/ \E f \in flights : HttpSuccess(f, "v1")
  \/ AdvanceTime(QUEUE_PROCESSING_INTERVAL, MaxTicks * QUEUE_PROCESSING_INTERVAL)

OrderSpec == QueueInit /\ [][OrderNext]_vars

\* the breaker around its recovery time
BreakerNext ==
  \/ \E k \in BreakerKeys : InKeyOrder(k) /\ Enqueue(k)
  \/ ProcessQueue
  \/ \E f \in flights : HttpSuccess(f, "v1")
  \/ \E f \in flights : HttpFailure(f, "ServerError")
  \/ AdvanceTime(RECOVERY_TIMEOUT, MaxBreakerSteps * RECOVERY_TIMEOUT)

BreakerSpec == QueueInit /\ [][BreakerNext]_vars

\* cachedQuery invocations followed from the call to the return
Next ==
  \/ \E c \in Callers, k \in Keys : StartQuery(c, k)
  \/ \E c \in Callers : CacheGetReturn(c)
  \/ \E c \in Callers : CacheGetFail(c)
  \/ \E c \in Callers : CacheSetReturn(c)
  \/ \E c \in Callers : CacheSetFail(c)
  \/ \E c \in Callers : StaleGetReturn(c)
  \/ \E c \in Callers : StaleGetFail(c)
  \/ \E c \in Callers : Return(c)
  \/ ProcessQueue
  \/ \E f \in flights, v \in {FreshValue, NULL} : HttpSuccess(f, v)
  \/ \E f \in flights : HttpFailure(f, "ServerError")
  \/ \E f \in flights : RequestTimeout(f)
  \/ AdvanceTime(REQUEST_TIMEOUT, MaxTimeouts * REQUEST_TIMEOUT)
  \/ \E k \in Keys : ExternalWrite(k, OldValue)
  \/ \E k \in Keys : Expire(k)

Spec == Init /\ [][Next]_vars

\* every call is answered: ticks keep firing and every HTTP call ends.  The
\* breaker starts with no failure counted, so that it never opens here.
LiveNext ==
  \/ \E c \in Callers, k \in Keys : StartQuery(c, k)
  \/ \E c \in Callers : CacheGetReturn(c)
  \/ \E c \in Callers : CacheSetReturn(c)
  \/ \E c \in Callers : Return(c)
  \/ ProcessQueue
  \/ \E f \in flights, v \in {FreshValue, NULL} : HttpSuccess(f, v)
  \/ \E f \in flights : HttpFailure(f, "ServerError")
  \/ \E k \in Keys : Expire(k)

HttpEnds ==
  \E f \in flights :
    \/ \E v \in {FreshValue, NULL} : HttpSuccess(f, v)
    \/ HttpFailure(f, "ServerError")

CacheEnds == \E c \in Callers : CacheGetReturn(c) \/ CacheSetReturn(c)

LiveSpec ==
  /\ InitWith(0)
  /\ [][LiveNext]_vars
  /\ WF_vars(ProcessQueue)
  /\ WF_vars(HttpEnds)
  /\ WF_vars(CacheEnds)

\* the time-bounded queries while the lower bound is reconfigured: the
\* subgraph answers each request with the data of the bound in its variables
ConfigNext ==
  \/ \E c \in Callers, k \in Keys : StartQuery(c, k)
  \/ \E c \in Callers : CacheGetReturn(c)
  \/ \E c \in Callers : CacheSetReturn(c)
  \/ \E c \in Callers : Return(c)
  \/ ProcessQueue
  \/ \E f \in flights : HttpSuccess(f, DataSince(BoundOf(f.id)))
  \/ \E ts \in HistoricalTimestamps : UpdateHistoricalConfig(ts)

ConfigSpec == InitWith(0) /\ [][ConfigNext]_vars

\* the slots of the scheduler when the subgraph may never answer: the clock
\* runs and a timer that is due fires, nothing is assumed about the HTTP calls
Tick == AdvanceTime(REQUEST_TIMEOUT, MaxTimeouts * REQUEST_TIMEOUT)

TimerFires == \E f \in flights : RequestTimeout(f)

SlotNext ==
  \/ \E k \in Keys : Enqueue(k)
  \/ ProcessQueue
  \/ \E f \in flights : HttpSuccess(f, FreshValue)
  \/ \E f \in flights : HttpFailure(f, "ServerError")
  \/ TimerFires
  \/ Tick

SlotSpec ==
  /\ InitWith(0)
  /\ [][SlotNext]_vars
  /\ WF_vars(Tick)
  /\ WF_vars(TimerFires)

---------------------------------------------------------------------------
(* Properties                                                              *)

\* the breaker is Open: the threshold is reached and the cool-down runs
BreakerOpen ==
  failureCount >= FAILURE_THRESHOLD /\ now - lastFailureTime <= RECOVERY_TIMEOUT

QueuedPromises(q) == {q[i].promise : i \in 1..Len(q)}

\* C2: in every reachable state the number of keys in activeRequests is at
\* most MAX_CONCURRENT_REQUESTS
C2_ActiveBounded == Cardinality(activeRequests) <= MAX_CONCURRENT_REQUESTS

\* all slots are taken, a request waits, and an earlier one has timed out
C2_Witness ==
  /\ Cardinality(activeRequests) = MAX_CONCURRENT_REQUESTS
  /\ Len(requestQueue) > 0
  /\ \E k \in QueueKeys : processedRequests[k].result = Err(TimeoutError)

\* C4: after FAILURE_THRESHOLD failures in a row (none of them followed by a
\* success or a reset) and less than RECOVERY_TIMEOUT after the last one,
\* isCircuitOpen() returns true; with fewer failures since the last success or
\* reset it returns false
C4_OpenAtThreshold ==
  /\ (streak >= FAILURE_THRESHOLD /\ now - lastFailureTime < RECOVERY_TIMEOUT)
       => IsCircuitOpen(failureCount, lastFailureTime, now)
  /\ streak < FAILURE_THRESHOLD
       => ~IsCircuitOpen(failureCount, lastFailureTime, now)

\* the threshold has been reached by failures of dispatched requests
C4_Witness ==
  /\ streak >= FAILURE_THRESHOLD
  /\ now - lastFailureTime < RECOVERY_TIMEOUT
  /\ Cardinality({k \in BreakerKeys : processedRequests[k].result.kind = "err"})
       >= 2
  /\ IsCircuitOpen(failureCount, lastFailureTime, now)

\* a dispatched request has just settled with a success
SuccessRecorded ==
  \E k \in KeyUniverse :
    /\ processedRequests'[k] # processedRequests[k]
    /\ processedRequests'[k].result.kind = "ok"

ClosedNext ==
  ~(failureCount' >= FAILURE_THRESHOLD
      /\ now' - lastFailureTime' <= RECOVERY_TIMEOUT)

\* C5 as claimed: once Open, the breaker is Open until more than
\* RECOVERY_TIMEOUT has passed since the last failure, and nothing queued is
\* dispatched while it is Open
C5_OpenUntilRecovery ==
  [][/\ (BreakerOpen /\ ClosedNext)
          => now' - lastFailureTime' > RECOVERY_TIMEOUT
     /\ QueuedPromises(requestQueue') # QueuedPromises(requestQueue)
          /\ QueuedPromises(requestQueue') \subseteq QueuedPromises(requestQueue)
          => ~BreakerOpen]_vars

\* C5 amended: once Open, the breaker is Open until more than
\* RECOVERY_TIMEOUT has passed since the last failure or a request that was
\* in flight settles with a success; nothing queued is dispatched while it
\* is Open
C5_OpenUntilRecoveryOrSuccess ==
  [][/\ (BreakerOpen /\ ClosedNext)
          => (now' - lastFailureTime' > RECOVERY_TIMEOUT \/ SuccessRecorded)
     /\ QueuedPromises(requestQueue') # QueuedPromises(requestQueue)
          /\ QueuedPromises(requestQueue') \subseteq QueuedPromises(requestQueue)
          => ~BreakerOpen]_vars

\* the breaker was Open, no request ever succeeded, and a tick past the
\* cool-down has reset the count and dispatched what was queued
C5_Witness ==
  /\ failureCount = 0
  /\ now - lastFailureTime > RECOVERY_TIMEOUT
  /\ \A k \in KeyUniverse : processedRequests[k].result.kind # "ok"
  /\ \E f \in flights : f.startedAt = now

\* C6: a tick with the breaker Open changes none of the queue, the active
\* set, the pending table and the memo, and starts no execution
C6_OpenTickDispatchesNothing ==
  [][(ProcessQueue /\ BreakerOpen)
       => UNCHANGED <<requestQueue, activeRequests, pendingRequests,
                      processedRequests, flights, builds>>]_vars

\* the breaker is Open while a request waits in the queue
C6_Witness == BreakerOpen /\ Len(requestQueue) > 0

\* the position of promise p in the order of arrival
Arrival(p) == CHOOSE i \in 1..Len(enqueueOrder) : enqueueOrder[i] = p

\* item r goes before item d: higher priority, or the same priority and
\* queued earlier
GoesBefore(r, d) ==
  \/ r.priority > d.priority
  \/ r.priority = d.priority /\ r.timestamp < d.timestamp
  \/ r.priority = d.priority /\ r.timestamp = d.timestamp
       /\ Arrival(r.promise) < Arrival(d.promise)

\* C10: a tick never takes an item from the queue and leaves one that goes
\* before it
C10_DispatchOrder ==
  [][\A i, j \in 1..Len(requestQueue) :
       (/\ requestQueue[i].promise \notin QueuedPromises(requestQueue')
        /\ requestQueue[j].promise \in QueuedPromises(requestQueue'))
         => ~GoesBefore(requestQueue[j], requestQueue[i])]_vars

\* a request of priority 2 was started by a tick that left a request of
\* priority 1 in the queue which had been pushed before that tick
C10_Witness ==
  \E i \in 1..Len(requestQueue), f \in flights :
    /\ requestQueue[i].priority = 1
    /\ PriorityOf(f.id) = 2
    /\ requestQueue[i].timestamp < f.startedAt
    /\ Cardinality(flights) = MAX_CONCURRENT_REQUESTS

\* the promises of key k that have not settled: those of queued items, of
\* running executions and of waiting callers
Unsettled(k) ==
  ({requestQueue[i].promise : i \in {j \in 1..Len(requestQueue) : requestQueue[j].id = k}}
     \cup {f.promise : f \in {g \in flights : g.id = k /\ ~g.raceSettled}}
     \cup {callers[c].joined :
             c \in {d \in Callers : callers[d].pc = "awaitQuery" /\ callers[d].key = k}})
    \ {NoPromise}

Delivered(c) == callers[c].joined # NoPromise /\ callers[c].got # NoOutcome

Awaiting(c) == callers[c].pc = "awaitQuery"

\* C3: with ticks firing, every HTTP call ending and the breaker not Open for
\* ever, every caller that waits for queueSubgraphRequest gets an outcome,
\* also for a key that was completed before
C3_EveryCallSettles ==
  ([]<>(~BreakerOpen)) => \A c \in Callers : (Awaiting(c) ~> ~Awaiting(c))

\* the first cache read of caller c answers in this step
FirstReadAnswers(c) ==
  /\ callers[c].pc = "cacheGet"
  /\ callers'[c].pc # "cacheGet"
  /\ callers'[c].error # Err(CacheError)

UnexpiredEntry(k) == cache[k].fresh /\ cache[k].val # NULL

\* C7: a read that finds an unexpired entry returns it: queryFn is not called,
\* nothing is queued or made pending, nothing is executed
C7_CacheHitShortCircuit ==
  [][\A c \in Callers :
       (FirstReadAnswers(c) /\ UnexpiredEntry(callers[c].key))
         => /\ callers'[c].pc = "done"
            /\ callers'[c].ret = Ok(cache[callers[c].key].val)
            /\ callers'[c].joined = NoPromise
            /\ UNCHANGED <<requestQueue, pendingRequests, activeRequests,
                           flights, builds, cache>>]_vars

\* a call has returned a cached value without a request of its own
C7_Witness ==
  \E c \in Callers :
    /\ callers[c].pc = "done"
    /\ callers[c].joined = NoPromise
    /\ callers[c].ret = Ok(OldValue)
    /\ callers[c].reads = 1

\* C8 as claimed: with the breaker Open and queryFn failed, a fallback read
\* that answers gives back the value the store held for the key, expired or
\* not
C8_StaleFallback ==
  [][\A c \in Callers :
       (/\ StaleGetReturn(c)
        /\ callers[c].got.kind = "err"
        /\ callers[c].error = callers[c].got
        /\ cache[callers[c].key].val # NULL)
         => callers'[c].ret = Ok(cache[callers[c].key].val)]_vars

QueryFnFailed(c) == callers[c].got.kind = "err"

\* C9: when queryFn failed and the breaker was closed or the fallback read
\* found nothing, the call raises the error of queryFn itself; with the
\* breaker closed there was no second read
C9_ErrorUnchanged ==
  \A c \in Callers :
    (callers[c].pc = "done" /\ QueryFnFailed(c))
      => /\ (~callers[c].openAtCatch \/ callers[c].stale = NULL)
              => callers[c].ret = callers[c].got
         /\ ~callers[c].openAtCatch
              => (callers[c].reads = 1 /\ callers[c].stale = "unread")

\* a call whose request timed out under an Open breaker found nothing in the
\* store and raised the timeout
C9_Witness ==
  \E c \in Callers :
    /\ callers[c].pc = "done"
    /\ callers[c].got = Err(TimeoutError)
    /\ callers[c].openAtCatch
    /\ callers[c].stale = NULL
    /\ callers[c].ret = Err(TimeoutError)

QueuedIds(q) == {q[i].id : i \in 1..Len(q)}

\* what a tick with a Closed breaker has to dispatch
FreeSlotsToFill == Min(AvailableSlots(activeRequests), Len(requestQueue))

\* C11 as claimed: a tick with the breaker Closed takes
\* min(MAX_CONCURRENT_REQUESTS - |activeRequests|, queue length) items from the
\* queue, puts that many keys into activeRequests and starts that many
\* executions
C11_TickFillsFreeSlots ==
  [][(ProcessQueue /\ ~IsCircuitOpen(failureCount, lastFailureTime, now))
       => /\ Len(requestQueue') = Len(requestQueue) - FreeSlotsToFill
          /\ Cardinality(activeRequests' \ activeRequests) = FreeSlotsToFill
          /\ Cardinality(flights' \ flights) = FreeSlotsToFill]_vars

RunningFor(k) == {f \in flights : f.id = k /\ ~f.raceSettled}

\* C12: no key has two dispatched executions that are both unsettled, and the
\* queue has no two items of one key
C12_OneExecutionPerKey ==
  \A k \in KeyUniverse :
    /\ Cardinality(RunningFor(k)) <= 1
    /\ Cardinality({i \in 1..Len(requestQueue) : requestQueue[i].id = k}) <= 1

\* an execution is running and two calls wait for it
C12_Witness ==
  \E f \in flights :
    /\ ~f.raceSettled
    /\ Cardinality(Waiting(f.promise)) = 2
    /\ requestQueue = <<>>

\* C13: no key is both in activeRequests and in the queue, before and after
\* every step, and a key enters activeRequests only by leaving the queue
C13_ActiveXorQueued ==
  [][/\ QueuedIds(requestQueue) \cap activeRequests = {}
     /\ QueuedIds(requestQueue') \cap activeRequests' = {}
     /\ (activeRequests' \ activeRequests)
          \subseteq (QueuedIds(requestQueue) \ QueuedIds(requestQueue'))]_vars

\* a key that was active and has left activeRequests is queued again while
\* other keys are active
C13_Witness ==
  \E k \in QueuedIds(requestQueue) :
    /\ IsProcessed(processedRequests, k)
    /\ k \notin activeRequests
    /\ activeRequests # {}

\* caller c called again for a request that failed before, with the breaker
\* Closed and nothing in the cache, and waits for the new future
Retrying(c) ==
  IF Awaiting(c)
  THEN /\ processedRequests[callers[c].joined[1]].result.kind = "err"
       /\ ~BreakerOpen
  ELSE FALSE

\* caller c has the outcome of an execution made for its own future
GotExecuted(c) ==
  IF Delivered(c) THEN builds[callers[c].joined] = 1 ELSE FALSE

\* C14 as claimed: the retry is executed anew and the caller gets the outcome
\* of that execution
C14_RetryExecutes ==
  \A c \in Callers :
    Retrying(c) ~> GotExecuted(c)

\* cachedQuery of caller c returns in this step the value of a successful
\* queryFn that it called after a miss
ReturnsQueried(c) ==
  /\ callers[c].pc # "done"
  /\ callers'[c].pc = "done"
  /\ callers'[c].joined # NoPromise
  /\ callers'[c].got.kind = "ok"
  /\ callers'[c].error = NoOutcome
  /\ callers'[c].ret.kind = "ok"

\* C15 as claimed: when cachedQuery returns what queryFn gave, whatever the
\* value, the store holds it and the next read of the key is a hit
C15_WriteThrough ==
  [][\A c \in Callers :
       ReturnsQueried(c)
         => /\ CacheGet(cache', callers[c].key) # NULL
            /\ CacheGet(cache', callers[c].key) = callers'[c].ret.val]_vars

\* C15 amended: the same for every value other than null; a null result is
\* returned and nothing is written
C15_WriteThroughNonNull ==
  [][\A c \in Callers :
       ReturnsQueried(c)
         => IF callers'[c].ret.val # NULL
            THEN CacheGet(cache', callers[c].key) = callers'[c].ret.val
            ELSE cache' = cache]_vars

\* a call has returned the value it queried and the store holds that value
C15_Witness ==
  \E c \in Callers :
    /\ callers[c].pc = "done"
    /\ callers[c].joined # NoPromise
    /\ callers[c].error = NoOutcome
    /\ callers[c].ret = Ok(FreshValue)
    /\ CacheGet(cache, callers[c].key) = FreshValue

\* C16 as claimed: a call made after the latest updateHistoricalConfig
\* returns data fetched with the lower bound that update has set
C16_NewBoundAfterUpdate ==
  \A c \in Callers :
    (/\ callers[c].pc = "done"
     /\ callers[c].ret.kind = "ok"
     /\ callers[c].since = historicalTimestamp)
      => callers[c].ret.val = DataSince(historicalTimestamp)

\* the race of execution f settles in this step
Settles(f) == f \in flights /\ ~f.raceSettled /\ f \notin flights'

SettlesWith(f, kind) ==
  Settles(f) /\ processedRequests'[f.id].result.kind = kind

\* C17: a dispatch that settles with a success sets failureCount to 0; one
\* that settles with a failure or a timeout adds exactly 1 and stamps
\* lastFailureTime with the time of settlement; nothing else raises
\* failureCount, which is never negative
C17_BreakerAccounting ==
  [][/\ \A f \in flights :
          /\ SettlesWith(f, "ok") => failureCount' = 0
          /\ SettlesWith(f, "err")
               => (failureCount' = failureCount + 1 /\ lastFailureTime' = now)
     /\ failureCount' > failureCount
          => \E f \in flights : SettlesWith(f, "err")
     /\ failureCount >= 0
     /\ failureCount' >= 0]_vars

\* failures, a timeout among them, were counted past the threshold and the
\* last one stamped the clock
C17_Witness ==
  /\ failureCount > FAILURE_THRESHOLD
  /\ now > 0
  /\ lastFailureTime = now
  /\ \E k \in KeyUniverse : processedRequests[k].result = Err(TimeoutError)

\* C18 as claimed: the first request dispatched after a recovery by cool-down
\* reopens the breaker if it fails and leaves it Closed if it succeeds
C18_FirstRequestDecides ==
  [][\A f \in flights :
       (Settles(f) /\ AfterRecovery(f))
         => IF processedRequests'[f.id].result.kind = "err"
            THEN ~ClosedNext
            ELSE ClosedNext]_vars

\* C18 amended: after a recovery by cool-down the count starts again from 0:
\* a failure of the first request dispatched afterwards adds 1 and leaves the
\* breaker Closed, a success leaves it Closed with the count at 0
C18_FirstRequestCounts ==
  [][\A f \in flights :
       (Settles(f) /\ AfterRecovery(f))
         => IF processedRequests'[f.id].result.kind = "err"
            THEN /\ failureCount' = failureCount + 1
                 /\ failureCount' < FAILURE_THRESHOLD
                 /\ ClosedNext
            ELSE /\ failureCount' = 0
                 /\ ClosedNext]_vars

\* the breaker recovered after the cool-down with no success ever, the first
\* request dispatched since has failed, and the breaker is Closed
C18_Witness ==
  /\ failureCount = 1
  /\ recoveredAt = NoRecovery
  /\ ~BreakerOpen
  /\ \A k \in KeyUniverse : processedRequests[k].result.kind # "ok"
  /\ \E k \in KeyUniverse :
       /\ processedRequests[k].result.kind = "err"
       /\ processedRequests[k].timestamp > RECOVERY_TIMEOUT
       /\ lastFailureTime = processedRequests[k].timestamp

CheckReportsOpen == IsCircuitOpen(failureCount, lastFailureTime, now)

CountAfterCheck == FailureCountAfterCheck(failureCount, lastFailureTime, now)

\* C19: a check past the cool-down with the threshold reached reports Closed
\* and sets failureCount to 0; within the cool-down it reports Open and
\* leaves the count; below the threshold it reports Closed and leaves the
\* count; a tick makes that check, and the clock alone changes nothing
C19_LazyRecovery ==
  [][/\ (failureCount >= FAILURE_THRESHOLD
           /\ now - lastFailureTime > RECOVERY_TIMEOUT)
          => (~CheckReportsOpen /\ CountAfterCheck = 0)
     /\ (failureCount >= FAILURE_THRESHOLD
           /\ now - lastFailureTime <= RECOVERY_TIMEOUT)
          => (CheckReportsOpen /\ CountAfterCheck = failureCount)
     /\ failureCount < FAILURE_THRESHOLD
          => (~CheckReportsOpen /\ CountAfterCheck = failureCount)
     /\ (ProcessQueue /\ requestQueue # <<>> /\ ~isProcessingQueue)
          => failureCount' = CountAfterCheck
     /\ now' # now
          => (failureCount' = failureCount /\ lastFailureTime' = lastFailureTime)]_vars

\* a tick past the cool-down has just reset the count
C19_Witness ==
  /\ recoveredAt = now
  /\ failureCount = 0
  /\ now - lastFailureTime > RECOVERY_TIMEOUT

\* the timer of the execution of key k can fire before the modelled clock stops
TimerCanFire(k) ==
  \E f \in RunningFor(k) :
    f.startedAt + REQUEST_TIMEOUT <= MaxTimeouts * REQUEST_TIMEOUT

\* C20: a key that has entered activeRequests leaves it again, also when the
\* HTTP call never answers
C20_SlotGivenBack ==
  \A k \in Keys :
    (k \in activeRequests /\ TimerCanFire(k)) ~> (k \notin activeRequests)

\* a request that got no answer has timed out and its slot is free again
C20_Witness ==
  \E k \in Keys :
    /\ processedRequests[k].result = Err(TimeoutError)
    /\ k \notin activeRequests
    /\ \E f \in flights : f.id = k /\ f.raceSettled

---------------------------------------------------------------------------
(* Settlement when the bookkeeping of a handler throws                     *)

\* cachedQuery invocations whose dispatches may settle with a handler whose
\* bookkeeping throws: the memo is then not written
FaultNext ==
  \/ \E c \in Callers, k \in Keys : StartQuery(c, k)
  \/ \E c \in Callers : CacheGetReturn(c)
  \/ \E c \in Callers : CacheSetReturn(c)
  \/ \E c \in Callers : StaleGetReturn(c)
  \/ \E c \in Callers : Return(c)
  \/ ProcessQueue
  \/ \E f \in flights : HttpSuccess(f, FreshValue)
  \/ \E f \in flights : HttpFailure(f, "ServerError")
  \/ \E f \in flights : HttpSuccessMemoThrows(f, FreshValue)
  \/ \E f \in flights : HttpFailureMemoThrows(f, "ServerError")

FaultSpec == Init /\ [][FaultNext]_vars

\* the callers of promise p have all been answered with outcome o
AnsweredWith(p, o) ==
  \A c \in Waiting(p) : callers'[c].pc # "awaitQuery" /\ callers'[c].got = o

\* C21: when the bookkeeping of a settlement throws before the memo is
\* written, every caller of the future is still answered with the outcome of
\* the execution, the pending entry is removed and the key leaves
\* activeRequests
C21_BookkeepingFaultsDoNotBlock ==
  [][\A f \in flights :
       /\ HttpSuccessMemoThrows(f, FreshValue) =>
            /\ AnsweredWith(f.promise, Ok(FreshValue))
            /\ pendingRequests'[f.id] = NoPromise
            /\ f.id \notin activeRequests'
       /\ HttpFailureMemoThrows(f, "ServerError") =>
            /\ AnsweredWith(f.promise, Err("ServerError"))
            /\ pendingRequests'[f.id] = NoPromise
            /\ f.id \notin activeRequests']_vars

\* a caller was answered by a settlement that left no memo entry
C21_Witness ==
  \E c \in Callers :
    /\ Delivered(c)
    /\ callers[c].got.kind = "err"
    /\ ~IsProcessed(processedRequests, callers[c].joined[1])
    /\ callers[c].joined[1] \notin activeRequests
    /\ pendingRequests[callers[c].joined[1]] = NoPromise

---------------------------------------------------------------------------
(* The order of the steps of a settlement                                  *)

\* C22: when a dispatch settles, the callers answered by it find the outcome
\* already in the memo, stamped with the time of settlement, and the breaker
\* already updated: a caller that gets the failure which brings failureCount
\* to FAILURE_THRESHOLD sees the breaker Open when it decides on the stale
\* fallback; the key has left activeRequests once the settlement is over
C22_SettlementOrder ==
  [][\A f \in flights :
       Settles(f) =>
         /\ \A c \in Waiting(f.promise) :
              callers'[c].got = processedRequests'[f.id].result
         /\ processedRequests'[f.id].timestamp = now
         /\ f.id \notin activeRequests'
         /\ (SettlesWith(f, "err")
               /\ RecordFailureCount(failureCount) = FAILURE_THRESHOLD) =>
              \A c \in Waiting(f.promise) :
                callers'[c].openAtCatch /\ callers'[c].pc = "staleGet"]_vars

\* a caller got the failure that opened the breaker and is at its stale read
C22_Witness ==
  \E c \in Callers :
    /\ callers[c].pc = "staleGet"
    /\ callers[c].openAtCatch
    /\ callers[c].got.kind = "err"
    /\ failureCount = FAILURE_THRESHOLD
    /\ lastFailureTime = now
    /\ processedRequests[callers[c].joined[1]].result = callers[c].got
    /\ callers[c].joined[1] \notin activeRequests

---------------------------------------------------------------------------
(* The life of an entry of pendingRequests                                 *)

\* the promise of key k is settled in this step
SettlesPromiseOf(k) ==
  \E f \in flights : f.id = k /\ Settles(f) /\ f.promise = pendingRequests[k]

\* C23: the pending entry of a key is removed in the step that settles its
\* future, with any number of callers waiting, and in no other step; a call
\* for the key after the removal creates a new future, held by nobody and
\* never executed, and one new queue item for it
C23_PendingLifetime ==
  [][\A k \in KeyUniverse :
       /\ (\E f \in flights : f.id = k /\ Settles(f)) =>
            pendingRequests'[k] = NoPromise
       /\ (HasPending(pendingRequests, k) /\ ~HasPending(pendingRequests', k)) =>
            SettlesPromiseOf(k)
       /\ (~HasPending(pendingRequests, k) /\ HasPending(pendingRequests', k)) =>
            /\ \A c \in Callers : callers[c].joined # pendingRequests'[k]
            /\ pendingRequests'[k] \notin QueuedPromises(requestQueue)
            /\ builds'[pendingRequests'[k]] = 0
            /\ requestQueue' =
                 Append(requestQueue, QueueItem(k, pendingRequests'[k], now))]_vars

\* a key whose first future was settled and delivered to a caller has a second
\* pending entry with its own queue item
C23_Witness ==
  \E k \in Keys, c \in Callers :
    /\ Delivered(c)
    /\ callers[c].joined[1] = k
    /\ HasPending(pendingRequests, k)
    /\ pendingRequests[k] # callers[c].joined
    /\ pendingRequests[k] \in QueuedPromises(requestQueue)

---------------------------------------------------------------------------
(* The memo check of a tick                                                *)

\* the items this step takes from the queue while their key is in the memo
Intercepted ==
  {requestQueue[i] :
     i \in {j \in 1..Len(requestQueue) :
              /\ requestQueue[j].promise \notin QueuedPromises(requestQueue')
              /\ processedRequests[requestQueue[j].id] # NoMemo}}

\* C24: for an item a tick takes while its key is in the memo, execute() is
\* not run, nothing is dispatched for the key and the key is not in
\* activeRequests after the tick; no success and no failure is recorded, the
\* counters are the ones the tick's own breaker check leaves; the item is one
\* of the items taken for the free slots, so that many fewer are dispatched
C24_MemoInterception ==
  [][ProcessQueue =>
       /\ \A r \in Intercepted :
            /\ builds'[r.promise] = builds[r.promise]
            /\ r.id \notin activeRequests'
            /\ \A f \in flights' \ flights : f.id # r.id /\ f.promise # r.promise
       /\ Intercepted # {} =>
            /\ failureCount' = CountAfterCheck
            /\ lastFailureTime' = lastFailureTime
            /\ Len(requestQueue') = Len(requestQueue) - FreeSlotsToFill
            /\ Cardinality(flights' \ flights) =
                 FreeSlotsToFill - Cardinality(Intercepted)]_vars

\* the promise of key k has left the queue without being dispatched
Dropped(k) ==
  /\ HasPending(pendingRequests, k)
  /\ pendingRequests[k] \notin QueuedPromises(requestQueue)
  /\ \A f \in flights : f.promise # pendingRequests[k]

\* a tick took three items for three free slots, one of them was intercepted:
\* two executions run, one item still waits
C24_Witness ==
  \E k \in QueueKeys :
    /\ Dropped(k)
    /\ builds[pendingRequests[k]] = 0
    /\ k \notin activeRequests
    /\ Cardinality(activeRequests) = MAX_CONCURRENT_REQUESTS - 1
    /\ \A f \in flights : f.startedAt = now /\ ~f.raceSettled
    /\ Len(requestQueue) = 1

---------------------------------------------------------------------------
(* The memo entry written by a settlement                                  *)

\* the memo entry of a dispatch that settled now with outcome o
MemoEntry(o) == [result |-> o, timestamp |-> now]

\* C25: after a dispatch settles, the memo holds for its key the outcome and
\* the time of settlement, for a result, for a failure and for a time-out
\* alike, whatever entry the key had before; no other step writes the memo
C25_MemoAfterSettlement ==
  [][/\ \A f \in flights :
          /\ \A v \in {FreshValue, NULL} :
               (HttpSuccess(f, v) /\ ~f.raceSettled) =>
                 processedRequests'[f.id] = MemoEntry(Ok(v))
          /\ (HttpFailure(f, "ServerError") /\ ~f.raceSettled) =>
               processedRequests'[f.id] = MemoEntry(Err("ServerError"))
          /\ RequestTimeout(f) =>
               processedRequests'[f.id] = MemoEntry(Err(TimeoutError))
     /\ \A k \in KeyUniverse :
          processedRequests'[k] # processedRequests[k] =>
            \E f \in flights : f.id = k /\ Settles(f)]_vars

\* the memo holds a result for one key and, stamped later, a time-out for
\* another
C25_Witness ==
  \E k1, k2 \in Keys :
    /\ IsProcessed(processedRequests, k1)
    /\ IsProcessed(processedRequests, k2)
    /\ processedRequests[k1].result.kind = "ok"
    /\ processedRequests[k2].result = Err(TimeoutError)
    /\ processedRequests[k2].timestamp > processedRequests[k1].timestamp

---------------------------------------------------------------------------
(* The two timers of a dispatched request                                  *)

\* the timeout option of the HTTP call of executeSubgraphQuery: the same
\* REQUEST_TIMEOUT, which replaces the default of the HTTP module
TRANSPORT_TIMEOUT == REQUEST_TIMEOUT

\* when the setTimeout of processRequestSafely rejects the race
LocalDeadline(f) == f.startedAt + REQUEST_TIMEOUT

\* when the HTTP client gives up on an upstream that never answers
TransportDeadline(f) == f.startedAt + TRANSPORT_TIMEOUT

\* C26 as claimed: for every dispatched request the local timer is due
\* strictly before the time-out of the HTTP call
C26_LocalTimeoutShorter ==
  \A f \in flights : ~f.raceSettled => LocalDeadline(f) < TransportDeadline(f)

---------------------------------------------------------------------------
(* The answer of the HTTP call that arrives after the local time-out       *)

\* C27 as claimed: when the HTTP call of a request that was timed out locally
\* answers afterwards, the result is stored, in the memo or in the cache, for
\* the next caller of the key
C27_LateResultStored ==
  [][\A f \in flights :
       (f.raceSettled /\ HttpSuccess(f, FreshValue)) =>
         \/ processedRequests'[f.id].result = Ok(FreshValue)
         \/ CacheGet(cache', f.id) = FreshValue]_vars

---------------------------------------------------------------------------
(* The classes of upstream failures and the breaker                        *)

\* the scheduler when the upstream may answer with a 4xx or a 5xx status:
\* executeSubgraphQuery throws an HttpException with that status
FailureClassNext ==
  \/ \E k \in QueueKeys : InKeyOrder(k) /\ Enqueue(k)
  \/ ProcessQueue
  \/ \E f \in flights : HttpSuccess(f, FreshValue)
  \/ \E f \in flights, e \in HttpErrors : HttpFailure(f, e)

FailureClassSpec == QueueInit /\ [][FailureClassNext]_vars

\* C28 as claimed: a dispatch that fails with a 5xx status adds 1 to
\* failureCount, one that fails with a 4xx status is delivered to its callers
\* and leaves failureCount and lastFailureTime as they were
C28_ClientErrorsNotCounted ==
  [][\A f \in flights :
       /\ (~f.raceSettled /\ HttpFailure(f, "ServerError")) =>
            failureCount' = failureCount + 1
       /\ (~f.raceSettled /\ HttpFailure(f, "ClientError")) =>
            /\ failureCount' = failureCount
            /\ lastFailureTime' = lastFailureTime]_vars

---------------------------------------------------------------------------
(* A cache write that fails after queryFn succeeded                        *)

\* C29 as claimed: a call whose queryFn returned a value returns that value,
\* also when the write of the value to the cache failed
C29_CacheWriteFailureHarmless ==
  \A c \in Callers :
    (callers[c].pc = "done" /\ Delivered(c) /\ callers[c].got.kind = "ok") =>
      callers[c].ret = Ok(QueryFnResult(callers[c].key, callers[c].got.val))

---------------------------------------------------------------------------
(* No retry by the scheduler                                               *)

\* C30: execute() runs at most once for a queue item; the step that settles
\* a dispatch with a failure or a time-out answers its callers with that
\* failure, puts nothing back into the queue and starts no execution
C30_NoAutomaticRetry ==
  [][/\ \A p \in PromiseIds : builds'[p] <= 1
     /\ \A f \in flights :
          SettlesWith(f, "err") =>
            /\ \A c \in Waiting(f.promise) :
                 /\ callers'[c].pc # "awaitQuery"
                 /\ callers'[c].got.kind = "err"
            /\ requestQueue' = requestQueue
            /\ builds' = builds
            /\ {g \in flights' : ~g.raceSettled} \subseteq flights
            /\ f.id \notin activeRequests']_vars

\* a caller has the failure of the one execution of its request, and nothing
\* is queued or running
C30_Witness ==
  \E c \in Callers :
    /\ callers[c].pc = "done"
    /\ Delivered(c)
    /\ callers[c].ret.kind = "err"
    /\ builds[callers[c].joined] = 1
    /\ requestQueue = <<>>
    /\ flights = {}
    /\ activeRequests = {}

---------------------------------------------------------------------------
(* The cleanup loop of processedRequests                                   *)

EXPIRY_DURATION == 3600000

CLEANUP_INTERVAL == 600000

MaxSweepTicks == 8

MaxSweepClock == MaxSweepTicks * CLEANUP_INTERVAL

\* mutant: an entry is removed as soon as its age reaches EXPIRY_DURATION
ExpiredAtOrAfter(entry, t) == entry # NoMemo /\ t - entry.timestamp >= EXPIRY_DURATION

\* now - entry.timestamp > this.EXPIRY_DURATION
Expired(entry, t) == entry # NoMemo /\ t - entry.timestamp > EXPIRY_DURATION

\* the memo after the loop of the cleanup callback
SweptMemo(memo, t) ==
  [k \in KeyUniverse |-> IF Expired(memo[k], t) THEN NoMemo ELSE memo[k]]

\* the callback of the cleanup setInterval runs
Sweep ==
  /\ now > 0
  /\ now % CLEANUP_INTERVAL = 0
  /\ processedRequests' = SweptMemo(processedRequests, now)
  /\ UNCHANGED <<now, historicalTimestamp, requestQueue, enqueueOrder, pendingRequests,
                 activeRequests, isProcessingQueue, failureCount, streak, recoveredAt,
                 lastFailureTime, flights, builds, cache, callers>>

SweepTick == AdvanceTime(CLEANUP_INTERVAL, MaxSweepClock)

\* the scheduler with the cleanup loop: the clock runs in steps of the
\* cleanup interval and the callback runs when it is due
SweepNext ==
  \/ \E k \in Keys : Enqueue(k)
  \/ ProcessQueue
  \/ \E f \in flights : HttpSuccess(f, FreshValue)
  \/ \E f \in flights : HttpFailure(f, "ServerError")
  \/ SweepTick
  \/ Sweep

SweepSpec ==
  /\ InitWith(0)
  /\ [][SweepNext]_vars
  /\ WF_vars(SweepTick)
  /\ WF_vars(Sweep)

\* the age of the memo entry of key k
AgeOf(k) == now - processedRequests[k].timestamp

\* an entry old enough to expire within the modelled clock
ExpiresInTime(k) ==
  /\ processedRequests[k] # NoMemo
  /\ processedRequests[k].timestamp + EXPIRY_DURATION + CLEANUP_INTERVAL <= MaxSweepClock

\* C31: a sweep removes exactly the memo entries whose age exceeds
\* EXPIRY_DURATION, keeps every younger one and changes nothing else; an
\* entry leaves the memo only in a sweep; and with the clock and the cleanup
\* loop running every entry is removed in the end
C31_MemoSweep ==
  /\ [][/\ Sweep =>
             /\ \A k \in KeyUniverse :
                  /\ (processedRequests[k] # NoMemo /\ AgeOf(k) > EXPIRY_DURATION)
                       => processedRequests'[k] = NoMemo
                  /\ ~(processedRequests[k] # NoMemo /\ AgeOf(k) > EXPIRY_DURATION)
                       => processedRequests'[k] = processedRequests[k]
             /\ UNCHANGED <<requestQueue, activeRequests, pendingRequests,
                            failureCount, lastFailureTime, flights>>
        /\ \A k \in KeyUniverse :
             (processedRequests[k] # NoMemo /\ processedRequests'[k] = NoMemo)
               => (Sweep /\ AgeOf(k) > EXPIRY_DURATION)]_vars
  /\ \A k \in Keys : ExpiresInTime(k) ~> (processedRequests[k] = NoMemo)

\* a sweep has removed the entry of one key and kept the entry of another
\* whose age is exactly EXPIRY_DURATION
C31_Witness ==
  \E k1, k2 \in Keys :
    /\ processedRequests[k1] = NoMemo
    /\ builds[<<k1, 1>>] = 1
    /\ k1 \notin activeRequests
    /\ processedRequests[k2] # NoMemo
    /\ AgeOf(k2) = EXPIRY_DURATION
    /\ now % CLEANUP_INTERVAL = 0

---------------------------------------------------------------------------
(* getQueueStatus                                                          *)

\* the object getQueueStatus() returns; failureCount is read before the
\* call of isCircuitOpen()
QueueStatus ==
  [queueSize |-> Len(requestQueue),
   activeRequests |-> Cardinality(activeRequests),
   failureCount |-> failureCount,
   circuitOpen |-> IsCircuitOpen(failureCount, lastFailureTime, now),
   pendingDeduplication |->
     Cardinality({k \in KeyUniverse : pendingRequests[k] # NoPromise})]

\* C32 as claimed: every key with an entry in pendingRequests has an item in
\* the queue or is in activeRequests, so that getQueueStatus() never reports
\* more pending entries than queued plus active requests
C32_PendingCovered ==
  /\ \A k \in KeyUniverse :
       pendingRequests[k] # NoPromise =>
         (k \in QueuedIds(requestQueue) \/ k \in activeRequests)
  /\ QueueStatus.pendingDeduplication
       <= QueueStatus.queueSize + QueueStatus.activeRequests

---------------------------------------------------------------------------
(* The range of failureCount                                               *)

\* the executions whose race is not settled
InFlight == {f \in flights : ~f.raceSettled}

---------------------------------------------------------------------------
(* A call of getQueueStatus                                                *)

\* getQueueStatus() is called: it reads the fields and calls isCircuitOpen(),
\* which resets failureCount when the cool-down is over
GetQueueStatus ==
  /\ failureCount' = FailureCountAfterCheck(failureCount, lastFailureTime, now)
  /\ streak' = StreakAfterCheck
  /\ recoveredAt' = RecoveredAtAfterCheck
  /\ UNCHANGED <<now, historicalTimestamp, requestQueue, enqueueOrder, pendingRequests,
                 activeRequests, processedRequests, isProcessingQueue,
                 lastFailureTime, flights, builds, cache, callers>>

\* the breaker around its recovery time, observed through getQueueStatus
StatusNext ==
  \/ \E k \in BreakerKeys : InKeyOrder(k) /\ Enqueue(k)
  \/ ProcessQueue
  \/ \E f \in flights : HttpSuccess(f, FreshValue)
  \/ \E f \in flights : HttpFailure(f, "ServerError")
  \/ AdvanceTime(RECOVERY_TIMEOUT, MaxBreakerSteps * RECOVERY_TIMEOUT)
  \/ GetQueueStatus

StatusSpec == QueueInit /\ [][StatusNext]_vars

\* C34 as claimed: a call of getQueueStatus() changes none of the queue,
\* activeRequests, pendingRequests, processedRequests, failureCount and
\* lastFailureTime, and in the object it returns circuitOpen is false only
\* with a reported failureCount below FAILURE_THRESHOLD
C34_StatusIsPureObservation ==
  [][GetQueueStatus =>
       /\ UNCHANGED <<requestQueue, activeRequests, pendingRequests,
                      processedRequests, failureCount, lastFailureTime>>
       /\ ~QueueStatus.circuitOpen =>
            QueueStatus.failureCount < FAILURE_THRESHOLD]_vars

---------------------------------------------------------------------------
(* The first cache read of cachedQuery fails                               *)

\* caller c is in the catch block for a cache error, at its fallback read,
\* without having called queryFn
FallbackAfterCacheError(c) ==
  /\ callers[c].pc = "staleGet"
  /\ callers[c].error = Err(CacheError)
  /\ callers[c].joined = NoPromise

\* C35: when the first cache read of a call fails, queryFn is not called and
\* nothing is enqueued; with the breaker Closed the call raises the cache
\* error, with the breaker Open it reads the cache once more, a second and
\* last read, and returns the value read if there is one, the cache error
\* otherwise
C35_CacheReadFailure ==
  [][\A c \in Callers :
       /\ CacheGetFail(c) =>
            /\ UNCHANGED <<requestQueue, pendingRequests, builds, flights>>
            /\ callers'[c].joined = NoPromise
            /\ callers'[c].got = NoOutcome
            /\ IF BreakerOpen
               THEN /\ callers'[c].pc = "staleGet"
                    /\ callers'[c].reads = 2
               ELSE /\ callers'[c].pc = "done"
                    /\ callers'[c].ret = Err(CacheError)
       /\ (FallbackAfterCacheError(c) /\ callers'[c] # callers[c]) =>
            /\ callers'[c].pc = "done"
            /\ callers'[c].reads = 2
            /\ callers'[c].joined = NoPromise
            /\ UNCHANGED <<requestQueue, pendingRequests, builds, flights>>
            /\ IF StaleGetReturn(c) /\ CacheGet(cache, callers[c].key) # NULL
               THEN callers'[c].ret = Ok(CacheGet(cache, callers[c].key))
               ELSE callers'[c].ret = Err(CacheError)]_vars

\* a call whose first read failed while the breaker was Open has returned the
\* value of its second read, without any request made for its key
C35_Witness ==
  \E c \in Callers :
    /\ callers[c].pc = "done"
    /\ callers[c].error = Err(CacheError)
    /\ callers[c].joined = NoPromise
    /\ callers[c].openAtCatch
    /\ callers[c].reads = 2
    /\ callers[c].ret = Ok(OldValue)
    /\ pendingRequests[callers[c].key] = NoPromise

---------------------------------------------------------------------------
(* The HTTP calls that are under way                                       *)

\* the executions whose HTTP call has been started and has not ended, those
\* whose race the local time-out has settled included
OutstandingCalls == flights

\* C36 as claimed: at most MAX_CONCURRENT_REQUESTS HTTP calls are under way
\* at any time, also after local time-outs have released their slots
C36_OutstandingCallsBounded ==
  Cardinality(OutstandingCalls) <= MAX_CONCURRENT_REQUESTS

====
